---- MODULE Spec2Model ----
(***************************************************************************)
(* convert_original_discriminator_checkpoint.py : convert_checkpoint       *)
(*                                                                         *)
(* The conversion routine as a sequential state machine.  pc is the        *)
(* position in convert_checkpoint; every other variable is one of the      *)
(* routine's locals, one of the objects it mutates, or what it has written *)
(* to disk / the hub.                                                      *)
(*                                                                         *)
(* Parameter names are sequences of one-character strings, so that         *)
(* str.replace and str.endswith are computed character by character.       *)
(* Python dicts are sequences of <<key, value>> pairs in insertion order.  *)
(***************************************************************************)
EXTENDS Integers, Sequences, FiniteSets, TLC

VARIABLES
    pc,             \* position in convert_checkpoint
    config,         \* VitsConfig: [num_speakers, arch]
    repo_id,        \* argument repo_id
    checkpoint,     \* contents of checkpoint["model"] on disk
    table,          \* the rename table the loop iterates (MAPPING)
    discriminator,  \* the VitsDiscriminator: [params, wn]
    i,              \* index of the running for loop
    items,          \* list(state_dict.items()) taken at line 55
    state_dict,     \* the mapping being renamed in place
    new_k,          \* local new_k (survives across outer iterations)
    err,            \* the exception that ended the run, or NoError
    model,          \* the VitsModelForPreTraining being assembled
    gen_reads,      \* attributes of generator that have been read
    saved,          \* artefacts written by save_pretrained
    pushed,         \* artefacts written by push_to_hub
    trace           \* the phases executed so far, in order

vars == <<pc, config, repo_id, checkpoint, table, discriminator, i, items,
          state_dict, new_k, err, model, gen_reads, saved, pushed, trace>>

---------------------------------------------------------------------------
(* Bounds *)

MaxKeys == 2        \* longest checkpoint mapping explored
MaxSpeakers == 2    \* largest config.num_speakers explored

---------------------------------------------------------------------------
(* Strings *)

conv_post == <<"c","o","n","v","_","p","o","s","t">>
final_conv == <<"f","i","n","a","l","_","c","o","n","v">>
weight == <<".","w","e","i","g","h","t">>
bias == <<".","b","i","a","s">>
attn == <<"a","t","t","n">>
attention == <<"a","t","t","e","n","t","i","o","n">>
post == <<"_","p","o","s","t">>
final_ == <<"f","i","n","a","l","_">>

\* MAPPING = {"conv_post": "final_conv"}
MAPPING == << <<conv_post, final_conv>> >>

\* the suffix tested by k.endswith(".attn.bias")
IgnoreSuffix == <<".">> \o attn \o bias

StartsWith(s, p) == Len(p) <= Len(s) /\ SubSeq(s, 1, Len(p)) = p

EndsWith(s, suf) ==
    Len(suf) <= Len(s) /\ SubSeq(s, Len(s) - Len(suf) + 1, Len(s)) = suf

\* str.replace(old, new) for non-empty old: every non-overlapping
\* occurrence, scanning left to right.
RECURSIVE Replace(_, _, _)
Replace(s, old, new) ==
    IF s = <<>> THEN <<>>
    ELSE IF StartsWith(s, old)
         THEN new \o Replace(SubSeq(s, Len(old) + 1, Len(s)), old, new)
         ELSE <<Head(s)>> \o Replace(Tail(s), old, new)

RECURSIVE Contains(_, _)
Contains(s, p) ==
    IF Len(s) < Len(p) THEN FALSE
    ELSE StartsWith(s, p) \/ Contains(Tail(s), p)

---------------------------------------------------------------------------
(* dict *)

Keys(d) == {d[n][1] : n \in DOMAIN d}
Has(d, k) == \E n \in DOMAIN d : d[n][1] = k
Get(d, k) == d[CHOOSE n \in DOMAIN d : d[n][1] = k][2]

\* d.pop(k): the entry leaves the dict, the others keep their order
Pop(d, k) == SelectSeq(d, LAMBDA e : e[1] # k)

\* d[k] = v: an existing key keeps its position, a new key goes last
SetItem(d, k, v) ==
    IF Has(d, k)
    THEN [n \in DOMAIN d |-> IF d[n][1] = k THEN <<k, v>> ELSE d[n]]
    ELSE Append(d, <<k, v>>)

---------------------------------------------------------------------------
(* Tensors.  The routine never inspects a tensor, so a tensor is an opaque *)
(* token <<part, origin, a, b>>: the n-th checkpoint entry holds tensor n, *)
(* a freshly constructed parameter holds the initial tensor.               *)

Tensor(n) == <<"whole", "ckpt", n, 0>>
InitTensor == <<"whole", "init", 0, 0>>

Unbound == <<"<unbound>">>
NoError == [kind |-> "none", keys |-> {}]
NoModule == [params |-> <<>>, wn |-> <<>>]

---------------------------------------------------------------------------
(* Inputs *)

suffix_g == <<"_","g">>
suffix_v == <<"_","v">>

\* parameter names that occur in the explored checkpoints
CheckpointKeys ==
    { conv_post \o weight,
      final_conv \o weight,
      conv_post \o weight \o suffix_g,
      conv_post \o weight \o suffix_v,
      final_conv \o bias,
      <<"b", ".">> \o attn \o bias,
      conv_post \o post,
      final_conv \o post,
      final_ \o final_conv }

\* every checkpoint["model"] of at most MaxKeys distinct names; the n-th
\* entry holds tensor n
Checkpoints ==
    UNION { { [j \in 1..n |-> <<f[j], Tensor(j)>>] :
                f \in { g \in [1..n -> CheckpointKeys] :
                          \A a, b \in 1..n : a # b => g[a] # g[b] } } :
            n \in 0..MaxKeys }

\* discriminator architectures: the names held in plain form, and for each
\* sub-discriminator the weights that apply_weight_norm decomposes
Architectures ==
    << [plain |-> {final_conv \o weight}, discs |-> << {} >>],
       [plain |-> {final_conv \o weight, final_conv \o bias},
        discs |-> << {} >>],
       [plain |-> {<<"a", ".">> \o attn \o bias},
        discs |-> << {final_conv \o weight}, {} >>],
       [plain |-> {final_conv \o weight, <<"a", ".">> \o attn \o bias},
        discs |-> << {} >>],
       [plain |-> {final_ \o final_conv}, discs |-> << {} >>] >>

Arch == Architectures[config.arch]
NumDiscs == Len(Arch.discs)

\* the rename tables the loop is explored with
Tables ==
    { MAPPING,
      << <<conv_post, final_conv>>, <<attn, attention>> >>,
      << >> }

RepoIds == {"None", "", "user/repo"}
Truthy(x) == x # "None" /\ x # ""

---------------------------------------------------------------------------
(* The discriminator module *)

\* VitsDiscriminator(config): every parameter in plain form, freshly
\* initialised
Constructed(arch) ==
    [params |-> [k \in arch.plain \cup UNION {arch.discs[j] : j \in DOMAIN arch.discs}
                   |-> InitTensor],
     wn |-> [j \in DOMAIN arch.discs |-> FALSE]]

Mag(x) == <<"g", x[2], x[3], x[4]>>
Dir(x) == <<"v", x[2], x[3], x[4]>>
Combine(g, v) ==
    IF g[1] = "g" /\ v[1] = "v" /\ <<g[2], g[3], g[4]>> = <<v[2], v[3], v[4]>>
    THEN <<"whole", g[2], g[3], g[4]>>
    ELSE <<"whole", "w", g[3], v[3]>>

\* disc.apply_weight_norm(): each designated weight becomes the pair
\* weight_g, weight_v computed from the current weight
ApplyWeightNormTo(d, j, layers) ==
    LET keep == DOMAIN d.params \ layers
        dom == keep \cup {w \o suffix_g : w \in layers}
                    \cup {w \o suffix_v : w \in layers}
    IN [params |->
          [k \in dom |->
             IF k \in keep THEN d.params[k]
             ELSE LET w == SubSeq(k, 1, Len(k) - 2)
                  IN IF EndsWith(k, suffix_g) THEN Mag(d.params[w])
                     ELSE Dir(d.params[w])],
        wn |-> [d.wn EXCEPT ![j] = TRUE]]

\* disc.remove_weight_norm(): the pair is recombined into the weight
RemoveWeightNormFrom(d, j, layers) ==
    LET pairs == {w \o suffix_g : w \in layers} \cup {w \o suffix_v : w \in layers}
        keep == DOMAIN d.params \ pairs
        dom == keep \cup layers
    IN [params |->
          [k \in dom |->
             IF k \in keep THEN d.params[k]
             ELSE Combine(d.params[k \o suffix_g], d.params[k \o suffix_v])],
        wn |-> [d.wn EXCEPT ![j] = FALSE]]

\* discriminator.state_dict().keys()
StateDictKeys(d) == DOMAIN d.params

\* discriminator.load_state_dict(sd, strict=False): every parameter the
\* mapping names is assigned, the others keep their value, names the module
\* does not declare are skipped
LoadStateDictInto(d, sd) ==
    [d EXCEPT !.params =
        [k \in DOMAIN d.params |-> IF Has(sd, k) THEN Get(sd, k) ELSE d.params[k]]]

---------------------------------------------------------------------------
(* The generator and the combined model *)

Parts == {"text_encoder", "flow", "decoder", "duration_predictor",
          "posterior_encoder", "embed_speaker", "discriminator"}

\* objects are named by identity
Generator == [p \in Parts \ {"discriminator"} |-> <<"generator", p>>]
NoModel == [p \in Parts |-> <<"none", p>>]
\* VitsModelForPreTraining(config): every part its own fresh object
FreshModel == [p \in Parts |-> <<"model", p>>]
TheDiscriminator == <<"local", "discriminator">>

---------------------------------------------------------------------------
(* Lines 55-59: the renaming loop *)

\* for old_layer_name in MAPPING: new_k = k.replace(old_layer_name, ...)
\* every iteration assigns new_k from k
RECURSIVE InnerLoop(_, _, _, _)
InnerLoop(k, tbl, n, cur) ==
    IF n > Len(tbl) THEN cur
    ELSE InnerLoop(k, tbl, n + 1, Replace(k, tbl[n][1], tbl[n][2]))

\* variant: state_dict.pop(k); state_dict[new_k] = v
MoveKeySnapshotValue(d, k, v, nk) == SetItem(Pop(d, k), nk, v)

\* state_dict[new_k] = state_dict.pop(k); v is the loop's snapshot value,
\* which line 59 does not use
MoveKey(d, k, v, nk) == SetItem(Pop(d, k), nk, Get(d, k))

---------------------------------------------------------------------------
(* Lines 61-64: the two key differences *)

\* variant: line 62 left out
ExtraKeysUnfiltered(sd, d) == Keys(sd) \ StateDictKeys(d)

\* variant: line 61 without the set difference
ExtraKeysNoDifference(sd, d) == {k \in Keys(sd) : ~EndsWith(k, IgnoreSuffix)}

ExtraKeys(sd, d) ==
    LET extra_keys == Keys(sd) \ StateDictKeys(d)
    IN {k \in extra_keys : ~EndsWith(k, IgnoreSuffix)}

\* variant: line 64 left out
MissingKeysUnfiltered(sd, d) == StateDictKeys(d) \ Keys(sd)

\* variant: line 63 with the operands of line 61
MissingKeysSwapped(sd, d) ==
    {k \in Keys(sd) \ StateDictKeys(d) : ~EndsWith(k, IgnoreSuffix)}

MissingKeys(sd, d) ==
    LET missing_keys == StateDictKeys(d) \ Keys(sd)
    IN {k \in missing_keys : ~EndsWith(k, IgnoreSuffix)}

---------------------------------------------------------------------------
(* Lines 76-88: the combined model *)

\* variant: line 86 without the test of line 85
GeneratorReadsAll(cfg) ==
    {"text_encoder", "flow", "decoder", "duration_predictor", "posterior_encoder",
     "embed_speaker"}

\* the generator attributes read by lines 79-86
GeneratorReads(cfg) ==
    {"text_encoder", "flow", "decoder", "duration_predictor", "posterior_encoder"}
      \cup (IF cfg.num_speakers > 1 THEN {"embed_speaker"} ELSE {})

Assembled(cfg) ==
    [p \in Parts |->
        IF p = "discriminator" THEN TheDiscriminator
        ELSE IF p \in GeneratorReads(cfg) THEN Generator[p]
        ELSE FreshModel[p]]

\* variant: lines 97-100 without the test of line 96
AfterSavesAlways(repo) == "push_model"

\* line 96: if repo_id
AfterSaves(repo) == IF Truthy(repo) THEN "push_model" ELSE "done"

---------------------------------------------------------------------------
(* convert_checkpoint *)

Raise(kind, keys) ==
    /\ pc' = "raised"
    /\ err' = [kind |-> kind, keys |-> keys]

\* Entry of convert_checkpoint.  Lines 37-42 and 49 only resolve paths and
\* fetch what the paths name; what they fetch (the configuration, the
\* checkpoint contents) is drawn here, with the argument repo_id.
Init ==
    /\ pc = "from_pretrained"
    /\ config \in [num_speakers : 1..MaxSpeakers, arch : DOMAIN Architectures]
    /\ repo_id \in RepoIds
    /\ checkpoint \in Checkpoints
    /\ table = MAPPING
    /\ discriminator = NoModule
    /\ i = 0
    /\ items = <<>>
    /\ state_dict = <<>>
    /\ new_k = Unbound
    /\ err = NoError
    /\ model = NoModel
    /\ gen_reads = {}
    /\ saved = {}
    /\ pushed = {}
    /\ trace = <<>>

\* lines 41-44
FromPretrained ==
    /\ pc = "from_pretrained"
    /\ discriminator' = Constructed(Arch)
    /\ pc' = "apply_weight_norm"
    /\ i' = 1
    /\ trace' = Append(trace, "construct")
    /\ UNCHANGED <<config, repo_id, checkpoint, table, items, state_dict,
                   new_k, err, model, gen_reads, saved, pushed>>

\* lines 46-47, one sub-discriminator
ApplyWeightNorm ==
    /\ pc = "apply_weight_norm"
    /\ i <= NumDiscs
    /\ discriminator' = ApplyWeightNormTo(discriminator, i, Arch.discs[i])
    /\ i' = i + 1
    /\ trace' = Append(trace, "expand")
    /\ UNCHANGED <<pc, config, repo_id, checkpoint, table, items, state_dict,
                   new_k, err, model, gen_reads, saved, pushed>>

\* lines 49-55: torch.load, checkpoint["model"], list(state_dict.items())
TorchLoad ==
    /\ pc = "apply_weight_norm"
    /\ i > NumDiscs
    /\ state_dict' = checkpoint
    /\ items' = checkpoint
    /\ i' = 1
    /\ pc' = "rename"
    /\ trace' = Append(trace, "torch_load")
    /\ UNCHANGED <<config, repo_id, checkpoint, table, discriminator, new_k,
                   err, model, gen_reads, saved, pushed>>

\* lines 55-59, one key of the snapshot
RenameStep ==
    /\ pc = "rename"
    /\ i <= Len(items)
    /\ LET k == items[i][1]
           v == items[i][2]
           nk == InnerLoop(k, table, 1, new_k)
       IN /\ new_k' = nk
          /\ trace' = Append(trace, "rename")
          /\ IF nk = Unbound
             THEN /\ Raise("UnboundLocalError", {})
                  /\ UNCHANGED <<state_dict, i>>
             ELSE IF ~Has(state_dict, k)
             THEN /\ Raise("KeyError", {k})
                  /\ UNCHANGED <<state_dict, i>>
             ELSE /\ state_dict' = MoveKey(state_dict, k, v, nk)
                  /\ i' = i + 1
                  /\ UNCHANGED <<pc, err>>
    /\ UNCHANGED <<config, repo_id, checkpoint, table, discriminator, items,
                   model, gen_reads, saved, pushed>>

\* variant: line 69 moved before line 61
ValidateLoadingFirst ==
    /\ pc = "rename"
    /\ i > Len(items)
    /\ discriminator' = LoadStateDictInto(discriminator, state_dict)
    /\ LET extra_keys == ExtraKeys(state_dict, discriminator')
           missing_keys == MissingKeys(state_dict, discriminator')
       IN IF extra_keys # {} THEN Raise("extra keys found", extra_keys)
          ELSE IF missing_keys # {} THEN Raise("missing keys", missing_keys)
          ELSE pc' = "load_state_dict" /\ UNCHANGED err
    /\ trace' = Append(trace, "validate")
    /\ UNCHANGED <<config, repo_id, checkpoint, table, i, items,
                   state_dict, new_k, model, gen_reads, saved, pushed>>

\* lines 61-68
Validate ==
    /\ pc = "rename"
    /\ i > Len(items)
    /\ LET extra_keys == ExtraKeys(state_dict, discriminator)
           missing_keys == MissingKeys(state_dict, discriminator)
       IN IF extra_keys # {} THEN Raise("extra keys found", extra_keys)
          ELSE IF missing_keys # {} THEN Raise("missing keys", missing_keys)
          ELSE pc' = "load_state_dict" /\ UNCHANGED err
    /\ trace' = Append(trace, "validate")
    /\ UNCHANGED <<config, repo_id, checkpoint, table, discriminator, i, items,
                   state_dict, new_k, model, gen_reads, saved, pushed>>

\* lines 69-71
LoadStateDict ==
    /\ pc = "load_state_dict"
    /\ discriminator' = LoadStateDictInto(discriminator, state_dict)
    /\ pc' = "remove_weight_norm"
    /\ i' = 1
    /\ trace' = Append(trace, "load")
    /\ UNCHANGED <<config, repo_id, checkpoint, table, items, state_dict,
                   new_k, err, model, gen_reads, saved, pushed>>

\* lines 73-74, one sub-discriminator
RemoveWeightNorm ==
    /\ pc = "remove_weight_norm"
    /\ i <= NumDiscs
    /\ discriminator' = RemoveWeightNormFrom(discriminator, i, Arch.discs[i])
    /\ i' = i + 1
    /\ trace' = Append(trace, "collapse")
    /\ UNCHANGED <<pc, config, repo_id, checkpoint, table, items, state_dict,
                   new_k, err, model, gen_reads, saved, pushed>>

\* lines 76-90
Assemble ==
    /\ pc = "remove_weight_norm"
    /\ i > NumDiscs
    /\ model' = Assembled(config)
    /\ gen_reads' = GeneratorReads(config)
    /\ pc' = "save_model"
    /\ trace' = Append(trace, "assemble")
    /\ UNCHANGED <<config, repo_id, checkpoint, table, discriminator, i, items,
                   state_dict, new_k, err, saved, pushed>>

\* line 92
SaveModel ==
    /\ pc = "save_model"
    /\ saved' = saved \cup {"model"}
    /\ pc' = "save_tokenizer"
    /\ trace' = Append(trace, "save_model")
    /\ UNCHANGED <<config, repo_id, checkpoint, table, discriminator, i, items,
                   state_dict, new_k, err, model, gen_reads, pushed>>

\* line 93
SaveTokenizer ==
    /\ pc = "save_tokenizer"
    /\ saved' = saved \cup {"tokenizer"}
    /\ pc' = "save_feature_extractor"
    /\ trace' = Append(trace, "save_tokenizer")
    /\ UNCHANGED <<config, repo_id, checkpoint, table, discriminator, i, items,
                   state_dict, new_k, err, model, gen_reads, pushed>>

\* lines 94-96
SaveFeatureExtractor ==
    /\ pc = "save_feature_extractor"
    /\ saved' = saved \cup {"feature_extractor"}
    /\ pc' = AfterSaves(repo_id)
    /\ trace' = Append(trace, "save_feature_extractor")
    /\ UNCHANGED <<config, repo_id, checkpoint, table, discriminator, i, items,
                   state_dict, new_k, err, model, gen_reads, pushed>>

\* line 98
PushModel ==
    /\ pc = "push_model"
    /\ pushed' = pushed \cup {"model"}
    /\ pc' = "push_tokenizer"
    /\ trace' = Append(trace, "push_model")
    /\ UNCHANGED <<config, repo_id, checkpoint, table, discriminator, i, items,
                   state_dict, new_k, err, model, gen_reads, saved>>

\* line 99
PushTokenizer ==
    /\ pc = "push_tokenizer"
    /\ pushed' = pushed \cup {"tokenizer"}
    /\ pc' = "push_feature_extractor"
    /\ trace' = Append(trace, "push_tokenizer")
    /\ UNCHANGED <<config, repo_id, checkpoint, table, discriminator, i, items,
                   state_dict, new_k, err, model, gen_reads, saved>>

\* line 100
PushFeatureExtractor ==
    /\ pc = "push_feature_extractor"
    /\ pushed' = pushed \cup {"feature_extractor"}
    /\ pc' = "done"
    /\ trace' = Append(trace, "push_feature_extractor")
    /\ UNCHANGED <<config, repo_id, checkpoint, table, discriminator, i, items,
                   state_dict, new_k, err, model, gen_reads, saved>>

Next ==
    \/ FromPretrained
    \/ ApplyWeightNorm
    \/ TorchLoad
    \/ RenameStep
    \/ Validate
    \/ LoadStateDict
    \/ RemoveWeightNorm
    \/ Assemble
    \/ SaveModel
    \/ SaveTokenizer
    \/ SaveFeatureExtractor
    \/ PushModel
    \/ PushTokenizer
    \/ PushFeatureExtractor

Spec == Init /\ [][Next]_vars

\* the renaming loop alone, run with each table of Tables
InitRename ==
    /\ pc = "from_pretrained"
    /\ config \in [num_speakers : {1}, arch : DOMAIN Architectures]
    /\ repo_id = "None"
    /\ checkpoint \in Checkpoints
    /\ table \in Tables
    /\ discriminator = NoModule
    /\ i = 0
    /\ items = <<>>
    /\ state_dict = <<>>
    /\ new_k = Unbound
    /\ err = NoError
    /\ model = NoModel
    /\ gen_reads = {}
    /\ saved = {}
    /\ pushed = {}
    /\ trace = <<>>

NextRename ==
    \/ FromPretrained
    \/ ApplyWeightNorm
    \/ TorchLoad
    \/ RenameStep

SpecRename == InitRename /\ [][NextRename]_vars

---------------------------------------------------------------------------
(* Properties of the renaming loop *)

RenameDone == pc = "rename" /\ i > Len(items)
RenameFailed == pc = "raised" /\ err.kind \in {"UnboundLocalError", "KeyError"}

ContainsOld(k, tbl) == \E n \in DOMAIN tbl : Contains(k, tbl[n][1])

\* the name the contract of the Key Mapper gives k: each pattern of the
\* table replaced in turn
RECURSIVE Renamed(_, _, _)
Renamed(k, tbl, n) ==
    IF n > Len(tbl) THEN k
    ELSE Renamed(Replace(k, tbl[n][1], tbl[n][2]), tbl, n + 1)

Rename(k) == Replace(k, conv_post, final_conv)

\* positions of the source keys that rename to K
Sources(K) == {n \in DOMAIN checkpoint : Rename(checkpoint[n][1]) = K}
Collides(K) == Cardinality(Sources(K)) >= 2
Max(S) == CHOOSE n \in S : \A m \in S : m <= n
Entries(d, K) == {n \in DOMAIN d : d[n][1] = K}

NoChain ==
    \A m, n \in DOMAIN checkpoint :
        (m # n /\ Rename(checkpoint[m][1]) = checkpoint[n][1])
            => Rename(checkpoint[n][1]) = checkpoint[n][1]

---------------------------------------------------------------------------
(* Properties of validation and loading *)

Range(f) == {f[n] : n \in DOMAIN f}
Called(phase) == phase \in Range(trace)

ValidationError ==
    pc = "raised" /\ err.kind \in {"extra keys found", "missing keys"}
ValidationPassed == pc = "load_state_dict"
\* validation has just run: state_dict and the module are as it saw them
AfterValidate == ValidationError \/ ValidationPassed

Ignored(k) == EndsWith(k, IgnoreSuffix)
Expected == DOMAIN discriminator.params
FilteredExtra == {k \in Keys(state_dict) : k \notin Expected /\ ~Ignored(k)}
FilteredMissing == {k \in Expected : ~Has(state_dict, k) /\ ~Ignored(k)}

\* the parameters of the module right after the apply_weight_norm loop
ExpandedNames ==
    LET layers == UNION Range(Arch.discs)
    IN Arch.plain \cup {w \o suffix_g : w \in layers}
                  \cup {w \o suffix_v : w \in layers}
ExpandedParams ==
    [k \in ExpandedNames |->
        IF k \in Arch.plain THEN InitTensor
        ELSE IF EndsWith(k, suffix_g) THEN Mag(InitTensor) ELSE Dir(InitTensor)]

\* C2 (as claimed): when a run ends with an extra-keys or missing-keys
\* error, the module's parameter names and values are those it had right
\* after construction.
C2_ModuleAsConstructed ==
    ValidationError => discriminator.params = Constructed(Arch).params

\* C2 (amended): when a run ends with an extra-keys or missing-keys error,
\* load_state_dict has not been called and the module is exactly as the
\* apply_weight_norm loop left it: nothing mutates it between that loop and
\* the two checks (it is in expanded form, not as constructed).
C2_ModuleAsExpanded ==
    ValidationError =>
        /\ ~Called("load")
        /\ discriminator.params = ExpandedParams
        /\ \A j \in DOMAIN discriminator.wn : discriminator.wn[j]

\* a validation error on a module whose expanded form differs from the
\* constructed one
C2_Witness ==
    /\ ValidationError
    /\ discriminator.params # Constructed(Arch).params
    /\ final_conv \o weight \o suffix_g \in DOMAIN discriminator.params

\* sub-discriminator j is in weight-normalized form: apply_weight_norm ran,
\* remove_weight_norm did not, and a weight is held as its decomposed pair
LeftExpanded(j) ==
    /\ discriminator.wn[j]
    /\ \E w \in Arch.discs[j] : w \o suffix_g \in DOMAIN discriminator.params

\* C3: no run ends (by an error or normally) with a sub-discriminator still
\* in weight-normalized form.
C3_CollapsedOnEveryExit ==
    pc \in {"raised", "done"} =>
        \A j \in DOMAIN discriminator.wn : ~LeftExpanded(j)

\* C4: the extra-keys error is raised exactly when the renamed names outside
\* the expected set, attention-bias names dropped, are not empty; it names
\* exactly those, and load_state_dict has not been called.
C4_ExtraKeysError ==
    /\ AfterValidate => (err.kind = "extra keys found" <=> FilteredExtra # {})
    /\ err.kind = "extra keys found" =>
          /\ pc = "raised"
          /\ err.keys = FilteredExtra
          /\ ~Called("load")

\* an extra-keys error that leaves an attention-bias name out of its report
C4_Witness ==
    /\ pc = "raised"
    /\ err.kind = "extra keys found"
    /\ err.keys = {final_conv \o bias}
    /\ Keys(state_dict) \ Expected = {final_conv \o bias, <<"b", ".">> \o attn \o bias}

\* C5 (as claimed): whenever the expected names absent from the renamed
\* mapping, attention-bias names dropped, are not empty, the run fails with
\* the missing-keys error naming exactly those, and load_state_dict is not
\* called.
C5_MissingKeysAlwaysReported ==
    (AfterValidate /\ FilteredMissing # {}) =>
        /\ err = [kind |-> "missing keys", keys |-> FilteredMissing]
        /\ ~Called("load")

\* C5 (amended): whenever that set is not empty the run fails with a
\* validation error and load_state_dict is not called; the error is the
\* missing-keys error naming exactly the set when the filtered extra set is
\* empty, and the extra-keys error (checked first) otherwise.
C5_MissingKeysError ==
    /\ (AfterValidate /\ FilteredMissing # {}) =>
          /\ pc = "raised"
          /\ ~Called("load")
          /\ IF FilteredExtra = {}
             THEN err = [kind |-> "missing keys", keys |-> FilteredMissing]
             ELSE err = [kind |-> "extra keys found", keys |-> FilteredExtra]
    /\ err.kind = "missing keys" => (pc = "raised" /\ ~Called("load"))

\* source conv_post.weight, module expecting final_conv.weight and
\* final_conv.bias: missing-keys error naming final_conv.bias
C5_Witness ==
    /\ pc = "raised"
    /\ Keys(checkpoint) = {conv_post \o weight}
    /\ Expected = {final_conv \o weight, final_conv \o bias}
    /\ err = [kind |-> "missing keys", keys |-> {final_conv \o bias}]

\* C6: if the names of the two sides agree once attention-bias names are set
\* aside, validation passes and the load step is reached, whichever side
\* holds attention-bias names the other lacks.
C6_IgnoredKeysTolerated ==
    (AfterValidate
       /\ {k \in Keys(state_dict) : ~Ignored(k)} = {k \in Expected : ~Ignored(k)})
    => (ValidationPassed /\ err = NoError /\ ENABLED LoadStateDict)

\* validation passed with an attention-bias name only in the mapping and
\* another only in the module
C6_Witness ==
    /\ ValidationPassed
    /\ \E k \in Keys(state_dict) : Ignored(k) /\ k \notin Expected
    /\ \E k \in Expected : Ignored(k) /\ ~Has(state_dict, k)

\* load_state_dict has just returned, no sub-discriminator collapsed yet
JustLoaded == pc = "remove_weight_norm" /\ i = 1

LoadedFromSource ==
    \A p \in Expected :
        \E n \in DOMAIN checkpoint :
            /\ Rename(checkpoint[n][1]) = p
            /\ discriminator.params[p] = checkpoint[n][2]

---------------------------------------------------------------------------
(* Properties of assembly and persistence *)

Aliased == {"text_encoder", "flow", "decoder", "duration_predictor",
            "posterior_encoder"}

\* C9: once assembled, the combined model's five generator parts are the
\* generator's own objects, its discriminator is the loaded discriminator,
\* and its embed_speaker is the generator's exactly when num_speakers > 1;
\* otherwise it is the one it was constructed with and the generator's
\* embed_speaker is not read.
C9_Assembly ==
    Called("assemble") =>
        /\ \A p \in Aliased : model[p] = Generator[p] /\ p \in gen_reads
        /\ model.discriminator = TheDiscriminator
        /\ Called("load")
        /\ (model.embed_speaker = Generator.embed_speaker) <=> (config.num_speakers > 1)
        /\ config.num_speakers <= 1 =>
              /\ model.embed_speaker = FreshModel.embed_speaker
              /\ "embed_speaker" \notin gen_reads

\* assembled for a single-speaker configuration
C9_Witness ==
    /\ pc = "save_model"
    /\ config.num_speakers = 1
    /\ model.embed_speaker = FreshModel.embed_speaker
    /\ model.flow = Generator.flow

Order == <<"construct", "expand", "torch_load", "rename", "validate", "load",
           "collapse", "assemble", "save_model", "save_tokenizer",
           "save_feature_extractor", "push_model", "push_tokenizer",
           "push_feature_extractor">>
Rank(phase) == CHOOSE n \in DOMAIN Order : Order[n] = phase
Count(phase) == Cardinality({n \in DOMAIN trace : trace[n] = phase})
AllSaved == {"model", "tokenizer", "feature_extractor"}

\* C10: the phases run in the order expand, rename, validate, load,
\* collapse, assemble, save; a save happens only after validation passed,
\* the load ran, every sub-discriminator was collapsed and the model was
\* assembled; a run that raised saves and pushes nothing; a push happens
\* only if a repo_id was given and after all three saves.
C10_PersistenceLast ==
    /\ \A a, b \in DOMAIN trace : a < b => Rank(trace[a]) <= Rank(trace[b])
    /\ saved # {} =>
          /\ err = NoError
          /\ Called("validate") /\ Called("load") /\ Called("assemble")
          /\ Count("expand") = NumDiscs /\ Count("collapse") = NumDiscs
          /\ \A j \in DOMAIN discriminator.wn : ~discriminator.wn[j]
          /\ model = Assembled(config)
    /\ pc = "raised" => (saved = {} /\ pushed = {})
    /\ pushed # {} => (repo_id \notin {"None", ""} /\ saved = AllSaved)

\* a finished run that pushed all three artefacts
C10_Witness ==
    /\ pc = "done"
    /\ saved = AllSaved
    /\ pushed = AllSaved

====
